---- MODULE Spec2Model ----
(***************************************************************************)
(* The photographer-portfolio backend (Flask + SQLAlchemy/SQLite):         *)
(* backend/app_sqlite.py, photoweb/backend/models_sqlite.py and            *)
(* photoweb/backend/create_custom_admin.py.                                *)
(*                                                                         *)
(* State: the users, portfolio and content tables, the upload directory,   *)
(* the wall clock, the tokens handed out so far, and for every request in  *)
(* flight the position of its handler and the handler's local variables.   *)
(* Every handler is cut into steps at its accesses to shared state (the    *)
(* database and the upload directory).                                     *)
(*                                                                         *)
(* Strings that the code takes apart (file names, e-mail addresses) are    *)
(* sequences of one-character strings; strings it only compares are TLA+   *)
(* strings.                                                                *)
(***************************************************************************)
EXTENDS Integers, Sequences, FiniteSets, TLC

VARIABLES
    users,      \* users table: id -> [username, email, password, role, created_at]
    pwset,      \* history: id -> the plaintext last given to set_password
    issued,     \* tokens handed out by create_token, with the instant of issue
    clock,      \* datetime.utcnow(), in ticks of 1/TicksPerSecond second
    nTick,      \* how often the clock advanced by one tick
    nJump,      \* how often the clock advanced by a long interval
    portfolio,  \* portfolio table: id -> [title, image_url]
    content,    \* content table: section -> [title, image_url]
    files,      \* names of the files in app.config['UPLOAD_FOLDER']
    req,        \* per worker: the request in flight (handler position, locals)
    script      \* position of a run of create_custom_admin.py

vars == <<users, pwset, issued, clock, nTick, nJump, portfolio, content, files, req, script>>

(***************************************************************************)
(* Bounds of the model.                                                    *)
(***************************************************************************)
MaxTicks == 1
MaxJumps == 1
MaxItems == 1
MaxTokens == 2

Procs == {1, 2}
SeqProcs == {1}

(***************************************************************************)
(* Values.                                                                 *)
(***************************************************************************)
None == "None"

Range(s) == {s[i] : i \in DOMAIN s}

Max(S) == CHOOSE x \in S : \A y \in S : y <= x

\* str.lower() on the characters the model uses
LowerChar(c) ==
    CASE c = "A" -> "a"
      [] c = "B" -> "b"
      [] c = "E" -> "e"
      [] c = "F" -> "f"
      [] c = "G" -> "g"
      [] c = "I" -> "i"
      [] c = "J" -> "j"
      [] c = "N" -> "n"
      [] c = "P" -> "p"
      [] c = "W" -> "w"
      [] OTHER -> c

lower(s) == [i \in DOMAIN s |-> LowerChar(s[i])]

\* filename.rsplit('.', 1)[1]: what follows the last '.'
LastDot(s) == Max({0} \cup {i \in DOMAIN s : s[i] = "."})

rsplit_ext(s) == SubSeq(s, LastDot(s) + 1, Len(s))

ALLOWED_EXTENSIONS ==
    { <<"p","n","g">>, <<"j","p","g">>, <<"j","p","e","g">>,
      <<"g","i","f">>, <<"w","e","b","p">> }

\* the extension is compared as the client wrote it
allowed_file_case_sensitive(filename) ==
    /\ "." \in Range(filename)
    /\ rsplit_ext(filename) \in ALLOWED_EXTENSIONS

allowed_file(filename) ==
    /\ "." \in Range(filename)
    /\ lower(rsplit_ext(filename)) \in ALLOWED_EXTENSIONS

(***************************************************************************)
(* werkzeug.utils.secure_filename on the model's alphabet: path separators *)
(* become blanks, the blank-separated parts are joined by "_", and leading *)
(* and trailing "." and "_" are stripped.                                  *)
(***************************************************************************)
RECURSIVE JoinParts(_, _)
JoinParts(s, pending) ==
    IF s = <<>> THEN <<>>
    ELSE IF Head(s) = "/" THEN JoinParts(Tail(s), pending)
    ELSE LET sep == IF pending THEN <<"_">> ELSE <<>>
             nxt == Len(s) > 1 /\ s[2] = "/"
         IN  sep \o <<Head(s)>> \o JoinParts(Tail(s), nxt)

RECURSIVE LStrip(_)
LStrip(s) ==
    IF s # <<>> /\ Head(s) \in {".", "_"} THEN LStrip(Tail(s)) ELSE s

RECURSIVE RStrip(_)
RStrip(s) ==
    IF s # <<>> /\ s[Len(s)] \in {".", "_"}
    THEN RStrip(SubSeq(s, 1, Len(s) - 1)) ELSE s

secure_filename(filename) == RStrip(LStrip(JoinParts(filename, FALSE)))

\* f"{datetime.utcnow().timestamp()}_{filename}"
StoredName(now, filename) == <<now, secure_filename(filename)>>

\* f'/uploads/{filename}'
UploadUrl(name) == <<"/uploads/", name>>

\* os.path.basename(item.image_url)
basename(url) == url[2]

\* content.image_url.replace('/uploads/', '')
strip_uploads(url) == IF url[1] = "/uploads/" THEN url[2] ELSE url

\* os.path.exists(os.path.join(UPLOAD_FOLDER, name))
path_exists(name) == name \in files

(***************************************************************************)
(* Passwords: werkzeug's generate_password_hash draws a salt and stores it *)
(* with the digest of salt and password; check_password_hash recomputes    *)
(* the digest from the stored salt.                                        *)
(***************************************************************************)
Salts == {"s1", "s2"}

Digest(salt, password) == <<"pbkdf2", salt, password>>

generate_password_hash(password, salt) ==
    [salt |-> salt, digest |-> Digest(salt, password)]

\* the digest is compared with the digest of the empty salt
check_password_hash_unsalted(pwhash, password) ==
    pwhash.digest = Digest("", password)

check_password_hash(pwhash, password) ==
    pwhash.digest = Digest(pwhash.salt, password)

\* User.check_password
check_password(user, password) == check_password_hash(user.password, password)

(***************************************************************************)
(* Tokens.  A JWT is its payload and the key that signed it; the payload's *)
(* exp is a NumericDate: the library encodes the datetime in whole         *)
(* seconds, and decoding compares it with the current time.                *)
(***************************************************************************)
TicksPerSecond == 2
SecondsPerDay == 86400
ExpirationDays == 7

JWT_SECRET_KEY == "your_jwt_secret_key_change_this"
AttackerKey == "some_other_key"

EmptyToken == [form |-> "empty"]
GarbageToken == [form |-> "garbage"]

\* timegm(dt.utctimetuple()): a datetime as whole seconds
NumericDate(now) == now \div TicksPerSecond

create_token(user_id, secret_key, now) ==
    [form |-> "jwt", user_id |-> user_id,
     exp |-> NumericDate(now) + ExpirationDays * SecondsPerDay,
     key |-> secret_key]

NoPayload == [ok |-> FALSE]

\* the signature is not verified
decode_token_unverified(token, secret_key, now) ==
    IF token.form # "jwt" THEN NoPayload
    ELSE IF token.exp * TicksPerSecond <= now THEN NoPayload
    ELSE [ok |-> TRUE, user_id |-> token.user_id, exp |-> token.exp]

\* a token is still accepted at the instant of its expiry
decode_token_late(token, secret_key, now) ==
    IF token.form # "jwt" THEN NoPayload
    ELSE IF token.key # secret_key THEN NoPayload
    ELSE IF token.exp * TicksPerSecond < now THEN NoPayload
    ELSE [ok |-> TRUE, user_id |-> token.user_id, exp |-> token.exp]

decode_token(token, secret_key, now) ==
    IF token.form # "jwt" THEN NoPayload               \* InvalidTokenError
    ELSE IF token.key # secret_key THEN NoPayload      \* InvalidSignatureError
    ELSE IF token.exp * TicksPerSecond <= now THEN NoPayload  \* ExpiredSignatureError
    ELSE [ok |-> TRUE, user_id |-> token.user_id, exp |-> token.exp]

(***************************************************************************)
(* The Authorization header: absent, or the parts that split(' ') yields.  *)
(***************************************************************************)
AbsentHeader == [present |-> FALSE]

Header(parts) == [present |-> TRUE, parts |-> parts]

Deny(status) == [pass |-> FALSE, status |-> status]

\* the wrapper of token_required, up to its call of f
token_required(header, now) ==
    IF header.present /\ Len(header.parts) < 2 THEN Deny(401)   \* IndexError
    ELSE LET token == IF header.present THEN header.parts[2] ELSE EmptyToken IN
         IF token.form = "empty" THEN Deny(401)
         ELSE LET payload == decode_token(token, JWT_SECRET_KEY, now) IN
              IF ~payload.ok THEN Deny(401)
              ELSE IF payload.user_id \notin DOMAIN users THEN Deny(401)
              ELSE IF users[payload.user_id].role # "admin" THEN Deny(403)
              ELSE [pass |-> TRUE, user |-> payload.user_id]

\* request.headers.get('Authorization', '').replace('Bearer ', '')
replace_bearer(header) ==
    IF ~header.present THEN EmptyToken
    ELSE IF Len(header.parts) < 2 THEN GarbageToken
    ELSE IF header.parts[1] = "Bearer" THEN header.parts[2]
    ELSE GarbageToken

\* The headers a client can send: it holds the tokens handed out so far and
\* can sign tokens of its own only with a key that is not the server's.
Schemes == {"Bearer", "Basic"}

ForgedTokens ==
    {[form |-> "jwt", user_id |-> u,
      exp |-> NumericDate(clock) + ExpirationDays * SecondsPerDay,
      key |-> AttackerKey] : u \in DOMAIN users}

Headers ==
    {AbsentHeader, Header(<<"Bearer">>)}
      \cup {Header(<<"Bearer", t>>) : t \in {EmptyToken, GarbageToken} \cup ForgedTokens}
      \cup {Header(<<s, i.token>>) : s \in Schemes, i \in issued}

(***************************************************************************)
(* Requests.                                                               *)
(***************************************************************************)
Idle == [pc |-> "idle"]

\* record r with the fields of changes set
With(r, changes) == changes @@ r

\* request.files['image']: absent, or a file with the name the client gave
NoFile == [present |-> FALSE]
Upload(filename) == [present |-> TRUE, filename |-> filename]

A_JPG == <<"a", ".", "j", "p", "g">>
SLASH_A_JPG == <<"/", "a", ".", "j", "p", "g">>
B_PNG == <<"b", ".", "P", "N", "G">>
C_TXT == <<"c", ".", "t", "x", "t">>
EmptyName == <<>>

FileNames == {EmptyName, A_JPG, SLASH_A_JPG, B_PNG, C_TXT}
FileInputs == {NoFile} \cup {Upload(n) : n \in FileNames}
Titles == {"t1", "t2"}
TitleInputs == Titles \cup {None}
OrderInputs == {None, "x"}
Sections == {"hero"}
ItemIds == 1 .. (MaxItems + 1)

NoUrl == <<>>
GhostUrl == UploadUrl(<<0, <<"g", "h", "o", "s", "t">>>>)

\* int(request.form.get('order')) raises ValueError
int_raises(order) == order = "x"

\* SQLite's INTEGER PRIMARY KEY: one more than the largest rowid in the table
NewId(table) == IF DOMAIN table = {} THEN 1 ELSE Max(DOMAIN table) + 1

Set(p, changes) == req' = [req EXCEPT ![p] = With(@, changes)]

\* a guarded route is entered through the wrapper of token_required
Enter(p, route, first) ==
    /\ req[p].pc = "idle"
    /\ \E header \in Headers :
         LET g == token_required(header, clock)
             r == route @@ [header |-> header]
         IN  req' = [req EXCEPT ![p] =
                        IF g.pass
                        THEN r @@ [pc |-> first, ran |-> TRUE, status |-> 0]
                        ELSE r @@ [pc |-> "done", ran |-> FALSE, status |-> g.status]]

\* file.save(filepath): the write succeeds, or raises before or after the
\* file was created
SaveOutcomes == {"ok", "raise_nofile", "raise_partial"}

Saved(name, outcome) == IF outcome = "raise_nofile" THEN files ELSE files \cup {name}

UNCHANGED_auth == UNCHANGED <<users, pwset, issued, script>>
UNCHANGED_time == UNCHANGED <<clock, nTick, nJump>>

(***************************************************************************)
(* POST /api/portfolio                                                     *)
(***************************************************************************)
create_portfolio(p) ==
    /\ Cardinality(DOMAIN portfolio) < MaxItems
    /\ Enter(p, [kind |-> "create_portfolio"], "cp_check")
    /\ UNCHANGED <<portfolio, content, files>>
    /\ UNCHANGED_auth /\ UNCHANGED_time

create_portfolio_check(p) ==
    /\ req[p].pc = "cp_check"
    /\ \E file \in FileInputs :
         IF ~file.present THEN Set(p, [file |-> file, pc |-> "done", status |-> 400])
         ELSE IF file.filename = <<>> THEN Set(p, [file |-> file, pc |-> "done", status |-> 400])
         ELSE IF ~allowed_file(file.filename)
              THEN Set(p, [file |-> file, pc |-> "done", status |-> 400])
         ELSE Set(p, [file |-> file, pc |-> "cp_save"])
    /\ UNCHANGED <<portfolio, content, files>>
    /\ UNCHANGED_auth /\ UNCHANGED_time

create_portfolio_save(p) ==
    /\ req[p].pc = "cp_save"
    /\ \E outcome \in SaveOutcomes :
         LET filename == StoredName(clock, req[p].file.filename) IN
         /\ files' = Saved(filename, outcome)
         /\ IF outcome = "ok"
            THEN Set(p, [new |-> filename, pc |-> "cp_commit"])
            ELSE Set(p, [new |-> filename, pc |-> "done", status |-> 500])
    /\ UNCHANGED <<portfolio, content>>
    /\ UNCHANGED_auth /\ UNCHANGED_time

create_portfolio_commit(p) ==
    /\ req[p].pc = "cp_commit"
    /\ \E title \in TitleInputs, order \in OrderInputs :
         IF int_raises(order) \/ title = None       \* ValueError, IntegrityError
         THEN /\ Set(p, [pc |-> "done", status |-> 500])
              /\ UNCHANGED portfolio
         ELSE LET id == NewId(portfolio) IN
              /\ portfolio' = portfolio @@
                     (id :> [title |-> title, image_url |-> UploadUrl(req[p].new)])
              /\ Set(p, [id |-> id, pc |-> "done", status |-> 201])
    /\ UNCHANGED <<content, files>>
    /\ UNCHANGED_auth /\ UNCHANGED_time

(***************************************************************************)
(* PUT /api/portfolio/<id>                                                 *)
(***************************************************************************)
update_portfolio(p) ==
    /\ \E id \in ItemIds : Enter(p, [kind |-> "update_portfolio", id |-> id], "up_get")
    /\ UNCHANGED <<portfolio, content, files>>
    /\ UNCHANGED_auth /\ UNCHANGED_time

\* 'image' in request.files and request.files['image'].filename != ''
\* and allowed_file(file.filename)
takes_image(file) ==
    /\ file.present
    /\ file.filename # <<>>
    /\ allowed_file(file.filename)

\* Portfolio.query.get_or_404(id), then the test of the upload.  get_or_404
\* aborts with werkzeug's NotFound, an Exception: the handler's own
\* "except Exception" catches it, rolls back and answers 500.
update_portfolio_get(p) ==
    /\ req[p].pc = "up_get"
    /\ IF req[p].id \notin DOMAIN portfolio
       THEN Set(p, [found |-> FALSE, pc |-> "done", status |-> 500])
       ELSE \E file \in FileInputs :
              Set(p, [found |-> TRUE, item |-> portfolio[req[p].id], file |-> file,
                      replace |-> takes_image(file),
                      pc |-> IF takes_image(file) THEN "up_remove" ELSE "up_commit"])
    /\ UNCHANGED <<portfolio, content, files>>
    /\ UNCHANGED_auth /\ UNCHANGED_time

\* the old image is looked up and left on disk
update_portfolio_remove_keeps(p) ==
    /\ req[p].pc = "up_remove"
    /\ LET url == req[p].item.image_url
           old == IF url # NoUrl THEN basename(url) ELSE NoUrl
           hit == url # NoUrl /\ path_exists(old)
       IN  /\ files' = files
           /\ Set(p, [old |-> old, removed |-> hit, pc |-> "up_save"])
    /\ UNCHANGED <<portfolio, content>>
    /\ UNCHANGED_auth /\ UNCHANGED_time

\* "Delete old image"
update_portfolio_remove(p) ==
    /\ req[p].pc = "up_remove"
    /\ LET url == req[p].item.image_url
           old == IF url # NoUrl THEN basename(url) ELSE NoUrl
           hit == url # NoUrl /\ path_exists(old)
       IN  /\ files' = IF hit THEN files \ {old} ELSE files
           /\ Set(p, [old |-> old, removed |-> hit, pc |-> "up_save"])
    /\ UNCHANGED <<portfolio, content>>
    /\ UNCHANGED_auth /\ UNCHANGED_time

\* "Save new image"
update_portfolio_save(p) ==
    /\ req[p].pc = "up_save"
    /\ \E outcome \in SaveOutcomes :
         LET filename == StoredName(clock, req[p].file.filename) IN
         /\ files' = Saved(filename, outcome)
         /\ IF outcome = "ok"
            THEN Set(p, [new |-> filename, pc |-> "up_commit"])
            ELSE Set(p, [new |-> filename, pc |-> "done", status |-> 500])
    /\ UNCHANGED <<portfolio, content>>
    /\ UNCHANGED_auth /\ UNCHANGED_time

\* the columns the session's UPDATE sets: those whose attribute changed
PortfolioChanges(r, title) ==
    (IF r.replace /\ UploadUrl(r.new) # r.item.image_url
     THEN [image_url |-> UploadUrl(r.new)] ELSE <<>>)
    @@ (IF title # None /\ title # r.item.title THEN [title |-> title] ELSE <<>>)

\* the error handler commits what the session holds instead of rolling back
update_portfolio_commit_no_rollback(p) ==
    /\ req[p].pc = "up_commit"
    /\ \E title \in TitleInputs, order \in OrderInputs :
         LET changes == PortfolioChanges(req[p], title)
             stale == DOMAIN changes # {} /\ req[p].id \notin DOMAIN portfolio
         IN  /\ portfolio' = IF DOMAIN changes = {} \/ stale THEN portfolio
                             ELSE [portfolio EXCEPT ![req[p].id] = With(@, changes)]
             /\ IF (order # None /\ int_raises(order)) \/ stale
                THEN Set(p, [pc |-> "done", status |-> 500])
                ELSE Set(p, [pc |-> "done", status |-> 200])
    /\ UNCHANGED <<content, files>>
    /\ UNCHANGED_auth /\ UNCHANGED_time

\* "Update fields from form data", db.session.commit()
update_portfolio_commit(p) ==
    /\ req[p].pc = "up_commit"
    /\ \E title \in TitleInputs, order \in OrderInputs :
         LET changes == PortfolioChanges(req[p], title) IN
         IF order # None /\ int_raises(order)                    \* ValueError
         THEN /\ Set(p, [pc |-> "done", status |-> 500])
              /\ UNCHANGED portfolio
         ELSE IF DOMAIN changes # {} /\ req[p].id \notin DOMAIN portfolio  \* StaleDataError
         THEN /\ Set(p, [pc |-> "done", status |-> 500])
              /\ UNCHANGED portfolio
         ELSE /\ portfolio' = IF DOMAIN changes = {} THEN portfolio
                              ELSE [portfolio EXCEPT ![req[p].id] = With(@, changes)]
              /\ Set(p, [pc |-> "done", status |-> 200])
    /\ UNCHANGED <<content, files>>
    /\ UNCHANGED_auth /\ UNCHANGED_time

(***************************************************************************)
(* DELETE /api/portfolio/<id>                                              *)
(***************************************************************************)
delete_portfolio(p) ==
    /\ \E id \in ItemIds : Enter(p, [kind |-> "delete_portfolio", id |-> id], "dp_get")
    /\ UNCHANGED <<portfolio, content, files>>
    /\ UNCHANGED_auth /\ UNCHANGED_time

delete_portfolio_get(p) ==
    /\ req[p].pc = "dp_get"
    /\ IF req[p].id \notin DOMAIN portfolio
       THEN Set(p, [found |-> FALSE, pc |-> "done", status |-> 500])
       ELSE Set(p, [found |-> TRUE, item |-> portfolio[req[p].id], pc |-> "dp_remove"])
    /\ UNCHANGED <<portfolio, content, files>>
    /\ UNCHANGED_auth /\ UNCHANGED_time

\* the image file is looked up and left on disk
delete_portfolio_remove_keeps(p) ==
    /\ req[p].pc = "dp_remove"
    /\ LET url == req[p].item.image_url
           old == IF url # NoUrl THEN basename(url) ELSE NoUrl
           hit == url # NoUrl /\ path_exists(old)
       IN  /\ files' = files
           /\ Set(p, [old |-> old, removed |-> hit, pc |-> "dp_commit"])
    /\ UNCHANGED <<portfolio, content>>
    /\ UNCHANGED_auth /\ UNCHANGED_time

\* "Delete image file"
delete_portfolio_remove(p) ==
    /\ req[p].pc = "dp_remove"
    /\ LET url == req[p].item.image_url
           old == IF url # NoUrl THEN basename(url) ELSE NoUrl
           hit == url # NoUrl /\ path_exists(old)
       IN  /\ files' = IF hit THEN files \ {old} ELSE files
           /\ Set(p, [old |-> old, removed |-> hit, pc |-> "dp_commit"])
    /\ UNCHANGED <<portfolio, content>>
    /\ UNCHANGED_auth /\ UNCHANGED_time

\* db.session.delete(item), db.session.commit()
delete_portfolio_commit(p) ==
    /\ req[p].pc = "dp_commit"
    /\ portfolio' = [i \in DOMAIN portfolio \ {req[p].id} |-> portfolio[i]]
    /\ Set(p, [pc |-> "done", status |-> 200])
    /\ UNCHANGED <<content, files>>
    /\ UNCHANGED_auth /\ UNCHANGED_time

(***************************************************************************)
(* GET /api/portfolio/<id> (not guarded)                                   *)
(***************************************************************************)
get_portfolio_item(p) ==
    /\ req[p].pc = "idle"
    /\ \E id \in ItemIds :
         req' = [req EXCEPT ![p] =
                    [kind |-> "get_portfolio_item", id |-> id, pc |-> "done",
                     found |-> id \in DOMAIN portfolio,
                     status |-> IF id \in DOMAIN portfolio THEN 200 ELSE 500]]
    /\ UNCHANGED <<portfolio, content, files>>
    /\ UNCHANGED_auth /\ UNCHANGED_time

(***************************************************************************)
(* PUT, POST /api/content/<section>                                        *)
(***************************************************************************)
update_content(p) ==
    /\ \E section \in Sections :
         Enter(p, [kind |-> "update_content", section |-> section], "uc_get")
    /\ UNCHANGED <<portfolio, content, files>>
    /\ UNCHANGED_auth /\ UNCHANGED_time

\* a key of the JSON body: absent, or given with a value
Absent == [given |-> FALSE]
Given(v) == [given |-> TRUE, value |-> v]

\* the image_url values a JSON body may carry
KnownUrls ==
    {portfolio[i].image_url : i \in DOMAIN portfolio}
      \cup {content[c].image_url : c \in DOMAIN content}

JsonUrls == {Absent} \cup {Given(u) : u \in {NoUrl, GhostUrl} \cup KnownUrls}
JsonTitles == {Absent} \cup {Given(t) : t \in Titles}

\* Content(section=section): the columns of a new row
NewContent == [title |-> None, image_url |-> NoUrl]

\* Content.query.filter_by(section=section).first(), request.is_json and
\* what the branch taken reads from the request
update_content_get(p) ==
    /\ req[p].pc = "uc_get"
    /\ LET found == req[p].section \in DOMAIN content
           row == IF found THEN content[req[p].section] ELSE NewContent
       IN \E is_json \in BOOLEAN :
            IF is_json
            THEN \E title \in JsonTitles, url \in JsonUrls :
                   Set(p, [found |-> found, item |-> row, is_json |-> TRUE,
                           replace |-> FALSE,
                           item_title |-> IF title.given THEN title.value ELSE row.title,
                           item_url |-> IF url.given THEN url.value ELSE row.image_url,
                           pc |-> "uc_commit"])
            ELSE \E file \in FileInputs :
                   Set(p, [found |-> found, item |-> row, is_json |-> FALSE, file |-> file,
                           replace |-> takes_image(file),
                           item_title |-> row.title, item_url |-> row.image_url,
                           pc |-> IF takes_image(file) THEN "uc_remove" ELSE "uc_commit"])
    /\ UNCHANGED <<portfolio, content, files>>
    /\ UNCHANGED_auth /\ UNCHANGED_time

\* "Delete old image if exists"
update_content_remove(p) ==
    /\ req[p].pc = "uc_remove"
    /\ LET url == req[p].item.image_url
           old == IF url # NoUrl THEN strip_uploads(url) ELSE NoUrl
           hit == url # NoUrl /\ path_exists(old)
       IN  /\ files' = IF hit THEN files \ {old} ELSE files
           /\ Set(p, [old |-> old, removed |-> hit, pc |-> "uc_save"])
    /\ UNCHANGED <<portfolio, content>>
    /\ UNCHANGED_auth /\ UNCHANGED_time

update_content_save(p) ==
    /\ req[p].pc = "uc_save"
    /\ \E outcome \in SaveOutcomes :
         LET filename == StoredName(clock, req[p].file.filename) IN
         /\ files' = Saved(filename, outcome)
         /\ IF outcome = "ok"
            THEN Set(p, [new |-> filename, item_url |-> UploadUrl(filename), pc |-> "uc_commit"])
            ELSE Set(p, [new |-> filename, pc |-> "done", status |-> 500])
    /\ UNCHANGED <<portfolio, content>>
    /\ UNCHANGED_auth /\ UNCHANGED_time

\* the form fields (multipart mode), db.session.commit(): the INSERT of a
\* new row fails on the unique section, the UPDATE of a vanished row on its
\* row count
update_content_commit(p) ==
    /\ req[p].pc = "uc_commit"
    /\ \E title \in (IF req[p].is_json THEN {None} ELSE TitleInputs) :
         LET r == req[p]
             row == [title |-> IF title # None THEN title ELSE r.item_title,
                     image_url |-> r.item_url]
             exists == r.section \in DOMAIN content
         IN  IF (~r.found /\ exists) \/ (r.found /\ ~exists /\ row # r.item)
             THEN /\ Set(p, [pc |-> "done", status |-> 500])
                  /\ UNCHANGED content
             ELSE /\ content' = IF ~r.found THEN content @@ (r.section :> row)
                                ELSE IF row = r.item THEN content
                                ELSE [content EXCEPT ![r.section] =
                                        [title |-> IF row.title # r.item.title
                                                   THEN row.title ELSE @.title,
                                         image_url |-> IF row.image_url # r.item.image_url
                                                       THEN row.image_url ELSE @.image_url]]
                  /\ Set(p, [pc |-> "done", status |-> 200])
    /\ UNCHANGED <<portfolio, files>>
    /\ UNCHANGED_auth /\ UNCHANGED_time

(***************************************************************************)
(* The environment: the response is delivered; the clock advances.         *)
(***************************************************************************)
Deliver(p) ==
    /\ req[p].pc = "done"
    /\ req' = [req EXCEPT ![p] = Idle]
    /\ UNCHANGED <<portfolio, content, files>>
    /\ UNCHANGED_auth /\ UNCHANGED_time

Tick ==
    /\ nTick < MaxTicks
    /\ clock' = clock + 1
    /\ nTick' = nTick + 1
    /\ UNCHANGED <<nJump, users, pwset, issued, portfolio, content, files, req, script>>

(***************************************************************************)
(* The asset lifecycle: the database as create_custom_admin.py leaves it,  *)
(* the admin logged in, no portfolio item, no content, no upload.          *)
(***************************************************************************)
USERNAME == "admin"
PASSWORD == "mypassword123"
EMAIL == <<"a", "@", "g">>

AdminRow(salt, now) ==
    [username |-> USERNAME, email |-> EMAIL, role |-> "admin", created_at |-> now,
     password |-> generate_password_hash(PASSWORD, salt)]

Issue(user_id, now) == [token |-> create_token(user_id, JWT_SECRET_KEY, now), at |-> now]

Init ==
    /\ users = (1 :> AdminRow("s1", 0))
    /\ pwset = (1 :> PASSWORD)
    /\ issued = {Issue(1, 0)}
    /\ clock = 0
    /\ nTick = 0
    /\ nJump = 0
    /\ portfolio = <<>>
    /\ content = <<>>
    /\ files = {}
    /\ req = [p \in Procs |-> Idle]
    /\ script = "idle"

Step(p) ==
    \/ create_portfolio(p)
    \/ create_portfolio_check(p)
    \/ create_portfolio_save(p)
    \/ create_portfolio_commit(p)
    \/ update_portfolio(p)
    \/ update_portfolio_get(p)
    \/ update_portfolio_remove(p)
    \/ update_portfolio_save(p)
    \/ update_portfolio_commit(p)
    \/ delete_portfolio(p)
    \/ delete_portfolio_get(p)
    \/ delete_portfolio_remove(p)
    \/ delete_portfolio_commit(p)
    \/ get_portfolio_item(p)
    \/ update_content(p)
    \/ update_content_get(p)
    \/ update_content_remove(p)
    \/ update_content_save(p)
    \/ update_content_commit(p)
    \/ Deliver(p)

Next == (\E p \in SeqProcs : Step(p)) \/ Tick

Spec == Init /\ [][Next]_vars

(***************************************************************************)
(* POST /api/auth/register                                                 *)
(***************************************************************************)
BOB == "bob"
PW2 == "pw2"
EMAIL_UPPER == <<"A", "@", "g">>
EMAIL_B == <<"b", "@", "g">>
NOT_EMAIL == <<"a">>

UsernameInputs == {"", USERNAME, BOB}
PasswordInputs == {"", PASSWORD, PW2}
EmailInputs == {<<>>, EMAIL, EMAIL_UPPER, EMAIL_B, NOT_EMAIL}

\* email_validator.validate_email raises EmailNotValidError
email_not_valid(email) ==
    \/ "@" \notin Range(email)
    \/ email[1] = "@"
    \/ email[Len(email)] = "@"

\* User.query.filter_by(username=...).first() and filter_by(email=...)
by_username(username) == {u \in DOMAIN users : users[u].username = username}
by_email(email) == {u \in DOMAIN users : users[u].email = email}

UNCHANGED_assets == UNCHANGED <<portfolio, content, files>>

\* the existence check compares the e-mail as the client wrote it
register_refuses_case_sensitive(username, email, password) ==
    \/ username = "" \/ email = <<>> \/ password = ""
    \/ email_not_valid(email)
    \/ by_username(username) # {}
    \/ by_email(email) # {}

\* "Validation", "Validate email", "Check if user already exists": the
\* request is answered 400
register_refuses(username, email, password) ==
    \/ username = "" \/ email = <<>> \/ password = ""
    \/ email_not_valid(email)
    \/ by_username(username) # {}
    \/ by_email(lower(email)) # {}

\* get_json, the validation and the two existence checks
register(p) ==
    /\ req[p].pc = "idle"
    /\ Cardinality(issued) < MaxTokens
    /\ \E username \in UsernameInputs, email \in EmailInputs, password \in PasswordInputs :
         LET r == [kind |-> "register", username |-> username, email |-> email,
                   password |-> password]
         IN  req' = [req EXCEPT ![p] =
                        IF register_refuses(username, email, password)
                        THEN r @@ [pc |-> "done", status |-> 400]
                        ELSE r @@ [pc |-> "rg_commit", status |-> 0]]
    /\ UNCHANGED <<users, pwset, issued, script>>
    /\ UNCHANGED_assets /\ UNCHANGED_time

\* the users table has a unique constraint on email alone
violates_unique_email_only(row) == by_email(row.email) # {}

\* the INSERT violates a unique constraint of the users table
violates_unique(row) == by_username(row.username) # {} \/ by_email(row.email) # {}

\* "Create new user", db.session.commit(), create_token
register_commit(p) ==
    /\ req[p].pc = "rg_commit"
    /\ \E salt \in Salts :
         LET row == [username |-> req[p].username, email |-> lower(req[p].email),
                     role |-> "admin", created_at |-> clock,
                     password |-> generate_password_hash(req[p].password, salt)]
             id == NewId(users)
         IN  IF violates_unique(row)                        \* IntegrityError
             THEN /\ Set(p, [pc |-> "done", status |-> 500])
                  /\ UNCHANGED <<users, pwset, issued>>
             ELSE /\ users' = users @@ (id :> row)
                  /\ pwset' = pwset @@ (id :> req[p].password)
                  /\ issued' = issued \cup {Issue(id, clock)}
                  /\ Set(p, [id |-> id, token |-> create_token(id, JWT_SECRET_KEY, clock),
                             pc |-> "done", status |-> 201])
    /\ UNCHANGED script
    /\ UNCHANGED_assets /\ UNCHANGED_time

(***************************************************************************)
(* POST /api/auth/login                                                    *)
(***************************************************************************)
\* jsonify({'message': ...})
Message(text) == [message |-> text]

\* the answer names the unknown username
login_response_tells(username, password) ==
    LET found == by_username(username) IN
    IF username = "" \/ password = ""
    THEN [status |-> 400, body |-> Message("Username and password are required")]
    ELSE IF found = {}
    THEN [status |-> 401, body |-> Message("Unknown username")]
    ELSE IF ~check_password(users[CHOOSE u \in found : TRUE], password)
    THEN [status |-> 401, body |-> Message("Invalid credentials")]
    ELSE LET id == CHOOSE u \in found : TRUE IN
         [status |-> 200,
          body |-> [token |-> create_token(id, JWT_SECRET_KEY, clock), user |-> id]]

\* the status and the JSON body login returns
login_response(username, password) ==
    LET found == by_username(username) IN
    IF username = "" \/ password = ""
    THEN [status |-> 400, body |-> Message("Username and password are required")]
    ELSE IF found = {} \/ ~check_password(users[CHOOSE u \in found : TRUE], password)
    THEN [status |-> 401, body |-> Message("Invalid credentials")]
    ELSE LET id == CHOOSE u \in found : TRUE IN
         [status |-> 200,
          body |-> [token |-> create_token(id, JWT_SECRET_KEY, clock), user |-> id]]

login(p) ==
    /\ req[p].pc = "idle"
    /\ Cardinality(issued) < MaxTokens
    /\ \E username \in UsernameInputs, password \in PasswordInputs :
         LET r == [kind |-> "login", username |-> username, password |-> password,
                   pc |-> "done"]
             response == login_response(username, password)
         IN  IF response.status # 200
             THEN /\ req' = [req EXCEPT ![p] = r @@ response]
                  /\ UNCHANGED issued
             ELSE /\ issued' = issued \cup {[token |-> response.body.token, at |-> clock]}
                  /\ req' = [req EXCEPT ![p] =
                                r @@ response @@
                                [id |-> response.body.user, token |-> response.body.token]]
    /\ UNCHANGED <<users, pwset, script>>
    /\ UNCHANGED_assets /\ UNCHANGED_time

(***************************************************************************)
(* GET /api/auth/verify                                                    *)
(***************************************************************************)
verify_status(header, now) ==
    LET token == replace_bearer(header) IN
    IF token.form = "empty" THEN 401
    ELSE LET payload == decode_token(token, JWT_SECRET_KEY, now) IN
         IF ~payload.ok THEN 401
         ELSE IF payload.user_id \notin DOMAIN users THEN 401
         ELSE 200

verify_token(p) ==
    /\ req[p].pc = "idle"
    /\ \E header \in Headers :
         req' = [req EXCEPT ![p] =
                    [kind |-> "verify_token", header |-> header, pc |-> "done",
                     status |-> verify_status(header, clock)]]
    /\ UNCHANGED_auth /\ UNCHANGED_assets /\ UNCHANGED_time

(***************************************************************************)
(* GET /api/contact: a guarded route without upload                        *)
(***************************************************************************)
get_contacts(p) ==
    /\ Enter(p, [kind |-> "get_contacts"], "gc_body")
    /\ UNCHANGED_auth /\ UNCHANGED_assets /\ UNCHANGED_time

get_contacts_body(p) ==
    /\ req[p].pc = "gc_body"
    /\ Set(p, [pc |-> "done", status |-> 200])
    /\ UNCHANGED_auth /\ UNCHANGED_assets /\ UNCHANGED_time

(***************************************************************************)
(* create_custom_admin.py, a process of its own                            *)
(***************************************************************************)
\* "Delete existing admin if exists"
create_custom_admin_delete ==
    /\ script = "idle"
    /\ LET existing == by_username(USERNAME) IN
       /\ users' = [u \in DOMAIN users \ existing |-> users[u]]
       /\ pwset' = [u \in DOMAIN users \ existing |-> pwset[u]]
    /\ script' = "add"
    /\ UNCHANGED <<issued, req>>
    /\ UNCHANGED_assets /\ UNCHANGED_time

\* "Create new admin": an IntegrityError ends the script
create_custom_admin_add ==
    /\ script = "add"
    /\ \E salt \in Salts :
         IF violates_unique(AdminRow(salt, clock))
         THEN UNCHANGED <<users, pwset>>
         ELSE /\ users' = users @@ (NewId(users) :> AdminRow(salt, clock))
              /\ pwset' = pwset @@ (NewId(users) :> PASSWORD)
    /\ script' = "idle"
    /\ UNCHANGED <<issued, req>>
    /\ UNCHANGED_assets /\ UNCHANGED_time

\* the clock advances by one tick short of the tokens' lifetime
JumpTicks == ExpirationDays * SecondsPerDay * TicksPerSecond - 1

Jump ==
    /\ nJump < MaxJumps
    /\ clock' = clock + JumpTicks
    /\ nJump' = nJump + 1
    /\ UNCHANGED <<nTick, users, pwset, issued, portfolio, content, files, req, script>>

(***************************************************************************)
(* Accounts and sessions: the database as db.create_all() leaves it.       *)
(***************************************************************************)
AuthInit ==
    /\ users = <<>>
    /\ pwset = <<>>
    /\ issued = {}
    /\ clock = 0
    /\ nTick = 0
    /\ nJump = 0
    /\ portfolio = <<>>
    /\ content = <<>>
    /\ files = {}
    /\ req = [p \in Procs |-> Idle]
    /\ script = "idle"

AuthStep(p) ==
    \/ register(p)
    \/ register_commit(p)
    \/ login(p)
    \/ verify_token(p)
    \/ get_contacts(p)
    \/ get_contacts_body(p)
    \/ Deliver(p)

AuthNext ==
    \/ \E p \in SeqProcs : AuthStep(p)
    \/ create_custom_admin_delete
    \/ create_custom_admin_add
    \/ Tick
    \/ Jump

AuthSpec == AuthInit /\ [][AuthNext]_vars

(***************************************************************************)
(* Claims.                                                                 *)
(***************************************************************************)
Quiescent == \A p \in Procs : req[p].pc \in {"idle", "done"}

Finished(p, kinds) == req[p].pc = "done" /\ req[p].kind \in kinds

\* the file a record's image_url names is in the upload directory
Backed(url) == url # NoUrl => basename(url) \in files

\* C1: whenever every request has completed (succeeded or failed), every
\* Portfolio and Content record with a non-empty image_url names a file
\* that exists in the upload directory.
C1_ImageUrlsNameFiles ==
    Quiescent =>
        /\ \A i \in DOMAIN portfolio : Backed(portfolio[i].image_url)
        /\ \A c \in DOMAIN content : Backed(content[c].image_url)

\* C2: in an image replacement the new file is written before the old one
\* is removed: no state has the old file removed and the new file not yet
\* written, and after a failed write the old file is still in place.
C2_NewWrittenBeforeOldRemoved ==
    \A p \in Procs :
        /\ req[p].pc \in {"up_save", "uc_save"} => ~req[p].removed
        /\ (Finished(p, {"update_portfolio", "update_content"})
              /\ req[p].ran /\ req[p].found /\ req[p].replace /\ req[p].status = 500
              /\ req[p].new \notin files)
           => ~req[p].removed

\* C9: an unknown record id on PUT, DELETE or GET /api/portfolio/:id is
\* answered 404 and changes no record and no file.
C9_UnknownIdIs404 ==
    \A p \in Procs :
        /\ (Finished(p, {"update_portfolio", "delete_portfolio"})
              /\ req[p].ran /\ ~req[p].found)
           => req[p].status = 404
        /\ (Finished(p, {"get_portfolio_item"}) /\ ~req[p].found)
           => req[p].status = 404

\* the request read an upload whose file name the type check rejects
BadUpload(r) == r.file.present /\ r.file.filename # <<>> /\ ~allowed_file(r.file.filename)

\* C10: on every upload-bearing endpoint an image whose file name the type
\* check rejects is answered 400 and the owning record is not changed; on
\* POST /api/portfolio a missing image is answered 400 as well.
C10_BadTypeIs400 ==
    \A p \in Procs :
        /\ (Finished(p, {"create_portfolio"}) /\ req[p].ran
              /\ (~req[p].file.present \/ BadUpload(req[p])))
           => req[p].status = 400
        /\ (Finished(p, {"update_portfolio"}) /\ req[p].ran /\ req[p].found
              /\ BadUpload(req[p]))
           => (req[p].status = 400 /\ portfolio[req[p].id] = req[p].item)
        /\ (Finished(p, {"update_content"}) /\ req[p].ran /\ ~req[p].is_json
              /\ BadUpload(req[p]))
           => req[p].status = 400

\* C5: after an item's image was replaced by a successful PUT, exactly one
\* of the record's files (the old one, the new one) is in the upload
\* directory: the new one, which image_url names; the old one is gone,
\* whether or not it was on disk before the replacement.
C5_ReplaceLeavesOneFile ==
    \A p \in Procs :
        (Finished(p, {"update_portfolio"}) /\ req[p].ran /\ req[p].found
           /\ req[p].replace /\ req[p].status = 200)
        => /\ req[p].id \in DOMAIN portfolio
           /\ portfolio[req[p].id].image_url = UploadUrl(req[p].new)
           /\ req[p].new \in files
           /\ {req[p].old, req[p].new} \cap files = {req[p].new}
           /\ req[p].old # req[p].new => req[p].old \notin files

\* a replacement that found the old file already missing has completed
C5_Witness ==
    \E p \in Procs :
        /\ Finished(p, {"update_portfolio"}) /\ req[p].ran /\ req[p].found
        /\ req[p].replace /\ req[p].status = 200
        /\ ~req[p].removed /\ req[p].old # req[p].new

\* a replacement that removed the old file has completed
C5_WitnessOnDisk ==
    \E p \in Procs :
        /\ Finished(p, {"update_portfolio"}) /\ req[p].ran /\ req[p].found
        /\ req[p].replace /\ req[p].status = 200
        /\ req[p].removed /\ req[p].old # req[p].new

\* a DELETE of an existing record is in flight
Deleting(p) == req[p].pc \in {"dp_remove", "dp_commit"}

C6_Post ==
    \A p \in Procs :
        (Finished(p, {"delete_portfolio"}) /\ req[p].ran /\ req[p].found)
        => /\ req[p].status = 200
           /\ req[p].id \notin DOMAIN portfolio
           /\ req[p].old \notin files

C6_Frame ==
    \A p \in Procs :
        /\ (req[p].pc = "dp_get" /\ req[p].id \in DOMAIN portfolio)
           => (req'[p].pc = "dp_remove" /\ files' = files)
        /\ Deleting(p)
           => /\ files' \subseteq files
              /\ files \ files' \subseteq {basename(req[p].item.image_url)}
              /\ basename(req[p].item.image_url) \notin files => files' = files
              /\ req'[p].pc \in {"dp_commit", "done"}
              /\ req'[p].pc = "done" => req'[p].status = 200

\* C6: DELETE /api/portfolio/:id on an existing record removes the record
\* and the file its image_url names, answers 200 also when that file was
\* already absent, and changes no other file; when the named file is
\* absent the upload directory is not changed at all.
C6_DeleteRemovesOnlyItsFile == []C6_Post /\ [][C6_Frame]_<<req, files>>

\* a DELETE of a record whose file was already absent has answered 200
C6_Witness ==
    \E p \in Procs :
        /\ Finished(p, {"delete_portfolio"}) /\ req[p].ran /\ req[p].found
        /\ req[p].status = 200 /\ ~req[p].removed /\ files # {}

(***************************************************************************)
(* Claims about accounts and sessions.                                     *)
(***************************************************************************)
GuardedKinds ==
    {"create_portfolio", "update_portfolio", "delete_portfolio", "update_content",
     "get_contacts"}

\* the header has the shape "<scheme> <token>"
CarriesToken(header) == header.present /\ Len(header.parts) >= 2

\* the token verifies under the server secret and is unexpired
Verifies(token, now) ==
    /\ token.form = "jwt"
    /\ token.key = JWT_SECRET_KEY
    /\ now < token.exp * TicksPerSecond

\* the token names an account that exists
NamesAccount(token) == token.user_id \in DOMAIN users

\* the request may run the body of a guarded route
Authorized(header, now) ==
    /\ CarriesToken(header)
    /\ Verifies(header.parts[2], now)
    /\ NamesAccount(header.parts[2])
    /\ users[header.parts[2].user_id].role = "admin"

\* the only reason to refuse the request is the account's role
RoleMismatch(header, now) ==
    /\ CarriesToken(header)
    /\ Verifies(header.parts[2], now)
    /\ NamesAccount(header.parts[2])
    /\ users[header.parts[2].user_id].role # "admin"

\* worker p takes up a request of one of the kinds
Arrives(p, kinds) ==
    /\ req[p].pc = "idle"
    /\ req'[p].pc # "idle"
    /\ req'[p].kind \in kinds

C3_Guard ==
    \A p \in Procs :
        Arrives(p, GuardedKinds) =>
            IF Authorized(req'[p].header, clock)
            THEN req'[p].ran /\ req'[p].pc # "done"
            ELSE /\ ~req'[p].ran
                 /\ req'[p].pc = "done"
                 /\ req'[p].status = IF RoleMismatch(req'[p].header, clock) THEN 403 ELSE 401

\* a refused request runs no step of the handler: it is only delivered
C3_Refused ==
    \A p \in Procs :
        (req[p].pc = "done" /\ req[p].kind \in GuardedKinds /\ ~req[p].ran)
        => (req'[p] = req[p] \/ req'[p] = Idle)

C3_BodyRan ==
    \A p \in Procs :
        (req[p].pc \notin {"idle", "done"} /\ req[p].kind \in GuardedKinds) => req[p].ran

\* C3: the body of a guarded route runs only for a request whose token
\* verifies under the server secret, is unexpired, and names an account
\* that exists at that time with role "admin"; every other request is
\* answered 401, or 403 on a role mismatch, and the body does not run.
C3_GuardAdmitsOnlyAdmins == []C3_BodyRan /\ [][C3_Guard /\ C3_Refused]_vars

\* a guarded body runs at a time when tokens have expired and a token of
\* a deleted account is in circulation
C3_Witness ==
    \E p \in Procs :
        /\ req[p].pc = "gc_body" /\ req[p].ran
        /\ nJump > 0
        /\ \E i \in issued : ~NamesAccount(i.token)

\* the tokens' lifetime
LifetimeTicks == ExpirationDays * SecondsPerDay * TicksPerSecond

\* the instant of expiry the claim names: the instant of issue + 7 days
ClaimedExpiry(i) == i.at + LifetimeTicks

\* the instant of expiry the token embeds: the whole second in which it
\* was issued + 7 days
EmbeddedExpiry(i) == NumericDate(i.at) * TicksPerSecond + LifetimeTicks

\* tokens that do not verify under the server secret, or are malformed
Unverifiable == {GarbageToken} \cup ForgedTokens

\* GET /api/auth/verify answers a request that carries "Bearer <token>"
\* for an account that exists by 200 before Expiry and by 401 from then
\* on, and so does decode_token decide; an unverifiable token is refused
VerifyDecides(p, Expiry(_)) ==
    /\ \A i \in issued :
         /\ decode_token(i.token, JWT_SECRET_KEY, clock).ok <=> clock < Expiry(i)
         /\ (Arrives(p, {"verify_token"})
               /\ req'[p].header = Header(<<"Bearer", i.token>>)
               /\ NamesAccount(i.token))
            => (req'[p].status = 200 <=> clock < Expiry(i))
            /\ req'[p].status \in {200, 401}
    /\ \A t \in Unverifiable :
         /\ ~decode_token(t, JWT_SECRET_KEY, clock).ok
         /\ (Arrives(p, {"verify_token"}) /\ req'[p].header = Header(<<"Bearer", t>>))
            => req'[p].status = 401

C4_WitnessAccepted ==
    \E p \in Procs, i \in issued :
        /\ req[p].pc = "done" /\ req[p].kind = "verify_token"
        /\ req[p].header = Header(<<"Bearer", i.token>>)
        /\ req[p].status = 200
        /\ clock = EmbeddedExpiry(i) - 1

(***************************************************************************)
(* Registration and login                                                  *)
(***************************************************************************)
\* the accounts whose e-mail equals the given one up to case
by_email_nocase(email) == {u \in DOMAIN users : lower(users[u].email) = lower(email)}

\* a register request that names an existing account's username or e-mail
\* is answered 400 at once and leaves the users table alone
C7_DuplicateRefused ==
    \A p \in Procs :
        (/\ Arrives(p, {"register"})
         /\ \/ by_username(req'[p].username) # {}
            \/ by_email_nocase(req'[p].email) # {})
        => /\ req'[p].pc = "done"
           /\ req'[p].status = 400
           /\ users' = users

\* no two accounts share a username or a lowercase-normalized e-mail
C7_Unique ==
    \A u, v \in DOMAIN users :
        u # v => /\ users[u].username # users[v].username
                 /\ lower(users[u].email) # lower(users[v].email)

\* C7: POST /api/auth/register with the username of an existing account, or
\* with an e-mail equal up to case to an existing account's, is answered
\* 400 and creates no row; no two accounts ever share a username or a
\* lowercase-normalized e-mail.
C7_RegisterKeepsAccountsUnique == []C7_Unique /\ [][C7_DuplicateRefused]_vars

\* a register request with a fresh username and an e-mail that differs
\* from an existing account's only by case has been answered 400
C7_Witness ==
    \E p \in Procs :
        /\ req[p].pc = "done" /\ req[p].kind = "register"
        /\ req[p].status = 400
        /\ req[p].username # "" /\ req[p].password # ""
        /\ by_username(req[p].username) = {}
        /\ req[p].email # lower(req[p].email)
        /\ by_email(req[p].email) = {}
        /\ by_email(lower(req[p].email)) # {}
        /\ Cardinality(DOMAIN users) = 1

\* the accounts of the given username whose password, as last set, is the
\* given one
Credentialed(username, password) ==
    {u \in DOMAIN users : users[u].username = username /\ pwset[u] = password}

C8_Login ==
    \A p \in Procs :
        (/\ Arrives(p, {"login"})
         /\ req'[p].username # "" /\ req'[p].password # "")
        => /\ req'[p].pc = "done"
           /\ IF Credentialed(req'[p].username, req'[p].password) # {}
              THEN /\ req'[p].status = 200
                   /\ req'[p].token.user_id
                         \in Credentialed(req'[p].username, req'[p].password)
                   /\ Verifies(req'[p].token, clock)
                   /\ issued' = issued \cup {[token |-> req'[p].token, at |-> clock]}
              ELSE /\ req'[p].status = 401
                   /\ issued' = issued

\* C8: POST /api/auth/login with both fields present answers 200 with a
\* token bound to the account if and only if the username names an existing
\* account and the password is the one last set for it; every other such
\* request is answered 401 and issues no token.
C8_LoginIffCredentials == [][C8_Login]_vars

\* a login has succeeded for an account whose password hash carries the
\* second salt, after a login with another account's password was refused
C8_Witness ==
    \E p \in Procs :
        /\ req[p].pc = "done" /\ req[p].kind = "login"
        /\ req[p].status = 200
        /\ req[p].id \in DOMAIN users
        /\ users[req[p].id].password.salt = "s2"
        /\ pwset[req[p].id] = req[p].password
        /\ \E v \in DOMAIN users : pwset[v] # req[p].password

\* a login that names an existing account with a password set for another
\* account has been refused
C8_WitnessRefused ==
    \E p \in Procs :
        /\ req[p].pc = "done" /\ req[p].kind = "login"
        /\ req[p].status = 401
        /\ by_username(req[p].username) # {}
        /\ \E v \in DOMAIN users : pwset[v] = req[p].password

(***************************************************************************)
(* allowed_file on its own: a file name is a concatenation of at most      *)
(* MaxParts pieces, and the function is called on it once.                 *)
(***************************************************************************)
MaxParts == 3

NamePieces ==
    { <<"a">>, <<".">>, <<"/">>, <<"g">>, <<"p", "n">>,
      <<"p", "n", "g">>, <<"P", "N", "G">>, <<"J", "p", "g">>,
      <<"j", "p", "e", "g">>, <<"G", "I", "F">>, <<"w", "e", "b", "P">>,
      <<"t", "x", "t">> }

RECURSIVE NamesOf(_)
NamesOf(n) ==
    IF n = 0 THEN {<<>>}
    ELSE LET shorter == NamesOf(n - 1)
         IN  shorter \cup {s \o q : s \in shorter, q \in NamePieces}

AnyNames == NamesOf(MaxParts)

NameInit ==
    /\ users = <<>>
    /\ pwset = <<>>
    /\ issued = {}
    /\ clock = 0
    /\ nTick = 0
    /\ nJump = 0
    /\ portfolio = <<>>
    /\ content = <<>>
    /\ files = {}
    /\ script = "idle"
    /\ \E filename \in AnyNames :
         req = [p \in Procs |->
                  IF p \in SeqProcs
                  THEN [pc |-> "call", kind |-> "allowed_file", filename |-> filename]
                  ELSE Idle]

\* allowed_file(file.filename), as the upload handlers call it
call_allowed_file(p) ==
    /\ req[p].pc = "call"
    /\ Set(p, [pc |-> "done", result |-> allowed_file(req[p].filename)])
    /\ UNCHANGED <<portfolio, content, files>>
    /\ UNCHANGED_auth /\ UNCHANGED_time

NameNext == \E p \in SeqProcs : call_allowed_file(p)

NameSpec == NameInit /\ [][NameNext]_vars

\* the five extensions, in lower case
C11_Extensions ==
    { <<"p", "n", "g">>, <<"j", "p", "g">>, <<"j", "p", "e", "g">>,
      <<"g", "i", "f">>, <<"w", "e", "b", "p">> }

\* the capital letters of the names and their small letters
C11_Capitals ==
    { <<"A", "a">>, <<"B", "b">>, <<"E", "e">>, <<"F", "f">>, <<"G", "g">>,
      <<"I", "i">>, <<"J", "j">>, <<"N", "n">>, <<"P", "p">>, <<"W", "w">> }

\* character c, lower-cased, is the small letter d
C11_FoldsTo(c, d) == c = d \/ <<c, d>> \in C11_Capitals

\* s has a '.', and what follows its last '.' is, lower-cased, one of the five
C11_Accepted(s) ==
    \E i \in DOMAIN s :
        /\ s[i] = "."
        /\ \A j \in (i + 1) .. Len(s) : s[j] # "."
        /\ \E e \in C11_Extensions :
             /\ Len(e) = Len(s) - i
             /\ \A k \in DOMAIN e : C11_FoldsTo(s[i + k], e[k])

\* C11: allowed_file returns true exactly when the file name contains a '.'
\* and the substring after the last '.', lower-cased, is one of png, jpg,
\* jpeg, gif, webp; it returns false for every other extension and for
\* every name without a dot.
C11_AllowedFileExact ==
    \A p \in Procs :
        (req[p].pc = "done" /\ req[p].kind = "allowed_file")
        => /\ req[p].result <=> C11_Accepted(req[p].filename)
           /\ "." \notin Range(req[p].filename) => ~req[p].result

\* allowed_file has accepted a name of two dots whose extension is written
\* in capitals
C11_Witness ==
    \E p \in Procs :
        /\ req[p].pc = "done" /\ req[p].kind = "allowed_file"
        /\ req[p].result
        /\ Cardinality({i \in DOMAIN req[p].filename : req[p].filename[i] = "."}) = 2
        /\ rsplit_ext(req[p].filename) \notin C11_Extensions

\* allowed_file has refused a name whose text before the last '.' is an
\* allowed extension
C11_WitnessRefused ==
    \E p \in Procs :
        /\ req[p].pc = "done" /\ req[p].kind = "allowed_file"
        /\ ~req[p].result
        /\ req[p].filename = <<"p", "n", "g", ".", "t", "x", "t">>

(***************************************************************************)
(* What a refused login tells                                              *)
(***************************************************************************)
\* the status and body of the response a finished request carries
Response(r) == [status |-> r.status, body |-> r.body]

\* login requests with both fields present that name no account, and ones
\* that name an account with a password other than the one set for it
UnknownLogins ==
    {c \in (UsernameInputs \ {""}) \X (PasswordInputs \ {""}) : by_username(c[1]) = {}}
WrongPasswordLogins ==
    {c \in (UsernameInputs \ {""}) \X (PasswordInputs \ {""}) :
        by_username(c[1]) # {} /\ Credentialed(c[1], c[2]) = {}}

\* in every state of the account store the two kinds of failed login get
\* the same response
C12_SameResponse ==
    \A a \in UnknownLogins, b \in WrongPasswordLogins :
        login_response(a[1], a[2]) = login_response(b[1], b[2])

\* the response a failed login is given is the one every failed login of
\* either kind would be given in that state
C12_Failed ==
    \A p \in Procs :
        (Arrives(p, {"login"})
           /\ <<req'[p].username, req'[p].password>> \in UnknownLogins \cup WrongPasswordLogins)
        => \A c \in UnknownLogins \cup WrongPasswordLogins :
              Response(req'[p]) = login_response(c[1], c[2])

\* C12: a failed login does not reveal which field was wrong: a login with
\* an unknown username and a login with a known username and a wrong
\* password, both fields present, get the same status and body, whatever
\* the account store holds.
C12_FailedLoginTellsNothing == []C12_SameResponse /\ [][C12_Failed]_vars

\* a login with a known username and a wrong password has been refused
\* while another username is unknown
C12_Witness ==
    \E p \in Procs :
        /\ req[p].pc = "done" /\ req[p].kind = "login"
        /\ req[p].status = 401
        /\ <<req[p].username, req[p].password>> \in WrongPasswordLogins
        /\ UnknownLogins # {}

(***************************************************************************)
(* Ownership of the stored files                                           *)
(***************************************************************************)
\* the records whose image_url names the stored file
PortfolioOwners(name) == {i \in DOMAIN portfolio : portfolio[i].image_url = UploadUrl(name)}
ContentOwners(name) == {c \in DOMAIN content : content[c].image_url = UploadUrl(name)}

\* C13: every file in the upload directory is referenced by the image_url
\* of at most one Portfolio or Content record: a store never reuses the
\* name of a referenced file, also for two uploads of one sanitized name at
\* one timestamp, and no operation makes a second record name an owned file.
C13_FilesHaveOneOwner ==
    \A name \in files :
        Cardinality(PortfolioOwners(name)) + Cardinality(ContentOwners(name)) <= 1

\* C13, the uploads alone: the name under which a multipart update of a
\* content section stored its file is the name of no file a portfolio
\* item references.
C13_StoredNameIsFresh ==
    \A p \in Procs :
        (/\ Finished(p, {"update_content"}) /\ req[p].ran
         /\ req[p].status = 200 /\ ~req[p].is_json /\ req[p].replace)
        => PortfolioOwners(req[p].new) = {}

(***************************************************************************)
(* Errors during an upload request                                         *)
(***************************************************************************)
UploadKinds == {"create_portfolio", "update_portfolio", "update_content"}

\* the request's file write, if it has one, has succeeded
Written(r) ==
    IF r.kind = "create_portfolio" THEN r.new \in files
    ELSE r.replace => r.new \in files

\* a step of an upload request changes the committed records only as its
\* last one, answering 200 or 201, with the file written; a step that ends
\* the request by 500 changes no record
C14_Step ==
    \A p \in Procs :
        (/\ req[p].pc \notin {"idle", "done"}
         /\ req[p].kind \in UploadKinds
         /\ req'[p] # req[p])
        => /\ (portfolio' # portfolio \/ content' # content)
              => /\ req'[p].pc = "done"
                 /\ req'[p].status \in {200, 201}
                 /\ Written(req[p])
           /\ (req'[p].pc = "done" /\ req'[p].status \notin {200, 201})
              => (req'[p].status \in {400, 500}
                    /\ portfolio' = portfolio /\ content' = content)

\* the record an update answered by 500 was about is as the request found it
C14_Unchanged ==
    \A p \in Procs :
        /\ (Finished(p, {"update_portfolio"}) /\ req[p].ran /\ req[p].status = 500
              /\ req[p].found)
           => portfolio[req[p].id] = req[p].item
        /\ (Finished(p, {"update_content"}) /\ req[p].ran /\ req[p].status = 500)
           => IF req[p].found THEN content[req[p].section] = req[p].item
              ELSE req[p].section \notin DOMAIN content

C14_WitnessSave ==
    \E p \in Procs :
        /\ Finished(p, UploadKinds) /\ req[p].ran
        /\ req[p].status = 500
        /\ req[p].kind = "update_content" /\ req[p].replace
        /\ req[p].new \notin files
        /\ req[p].section \notin DOMAIN content

(***************************************************************************)
(* Two workers and PUT /api/portfolio/<id>: the database and the upload    *)
(* directory after one POST /api/portfolio with image=a.jpg at instant 0,  *)
(* one request per worker, the two interleaved step by step.               *)
(***************************************************************************)
FirstName == StoredName(0, A_JPG)

PutInit ==
    /\ users = (1 :> AdminRow("s1", 0))
    /\ pwset = (1 :> PASSWORD)
    /\ issued = {Issue(1, 0)}
    /\ clock = 0
    /\ nTick = 0
    /\ nJump = 0
    /\ portfolio = (1 :> [title |-> "t1", image_url |-> UploadUrl(FirstName)])
    /\ content = <<>>
    /\ files = {FirstName}
    /\ req = [p \in Procs |-> Idle]
    /\ script = "idle"

PutStep(p) ==
    \/ update_portfolio(p)
    \/ update_portfolio_get(p)
    \/ update_portfolio_remove(p)
    \/ update_portfolio_save(p)
    \/ update_portfolio_commit(p)

PutNext == (\E p \in Procs : PutStep(p)) \/ Tick

PutSpec == PutInit /\ [][PutNext]_vars

\* the request has replaced the image of its item and was answered 200
Replaced(p) ==
    /\ Finished(p, {"update_portfolio"}) /\ req[p].ran /\ req[p].found
    /\ req[p].replace /\ req[p].status = 200

\* some record's image_url names the stored file
Referenced(name) == PortfolioOwners(name) # {} \/ ContentOwners(name) # {}

\* C15: once two concurrent image-replacing PUT /api/portfolio/:id requests
\* on one item (both read the record before either committed) have
\* completed, the record's image_url names a file on disk and no file
\* either request wrote is on disk unreferenced by a record.
C15_ConcurrentReplacesLeaveNoOrphan ==
    \A p, q \in Procs :
        (/\ p # q /\ Replaced(p) /\ Replaced(q)
         /\ req[p].id = req[q].id
         /\ req[p].item = req[q].item)
        => /\ Backed(portfolio[req[p].id].image_url)
           /\ \A name \in {req[p].new, req[q].new} :
                name \in files => Referenced(name)

(***************************************************************************)
(* Tokens of a deleted account                                             *)
(***************************************************************************)
\* the token was issued, and only ever issued, before the row that now has
\* its account id was created: it was issued to an account deleted since
IssuedToDeleted(token) ==
    /\ \E i \in issued : i.token = token
    /\ token.user_id \in DOMAIN users
    /\ \A i \in issued :
         i.token = token => i.at < users[token.user_id].created_at

\* C16: a token issued for one account never authenticates a request as
\* another: after the account was deleted and a new one created, as
\* create_custom_admin.py does, the guard and GET /api/auth/verify refuse
\* every token issued to the deleted account, also when the new row has
\* the id the deleted row had.
C16_DeletedAccountsTokensRefused ==
    [][\A p \in Procs :
          (/\ Arrives(p, GuardedKinds \cup {"verify_token"})
           /\ CarriesToken(req'[p].header)
           /\ IssuedToDeleted(req'[p].header.parts[2]))
          => /\ req'[p].pc = "done"
             /\ req'[p].status = 401]_vars

(***************************************************************************)
(* Two workers and POST /api/auth/register, from the empty database: the   *)
(* existence checks and the insert-and-commit of a request are two steps,  *)
(* and the steps of the two workers interleave.                            *)
(***************************************************************************)
RegisterStep(p) ==
    \/ register(p)
    \/ register_commit(p)
    \/ Deliver(p)

RegisterNext == (\E p \in Procs : RegisterStep(p)) \/ Tick

RegisterSpec == AuthInit /\ [][RegisterNext]_vars

\* at most one row has a given username
C17_OneRow == \A username \in UsernameInputs : Cardinality(by_username(username)) <= 1

\* a request whose username was committed by another between its check and
\* its insert ends there without a row and without a token
C17_Loser ==
    \A p \in Procs :
        (/\ req[p].pc = "rg_commit"
         /\ req'[p].pc # "rg_commit"
         /\ by_username(req[p].username) # {})
        => /\ users' = users /\ pwset' = pwset /\ issued' = issued
           /\ req'[p].pc = "done"
           /\ req'[p].status = 500

\* C17: in every interleaving of two concurrent POST /api/auth/register
\* requests with one username, at most one row with that username is ever
\* committed, and the request that loses creates no row and leaves no
\* pending change behind.
C17_ConcurrentRegistersKeepOneRow == []C17_OneRow /\ [][C17_Loser]_vars

\* two requests with one username and different e-mails both passed the
\* existence checks; one was answered 201, the other lost, and one row has
\* the username
C17_Witness ==
    \E p, q \in Procs :
        /\ p # q
        /\ req[p].pc = "done" /\ req[p].kind = "register" /\ req[p].status = 201
        /\ req[q].pc = "done" /\ req[q].kind = "register" /\ req[q].status = 500
        /\ req[p].username = req[q].username
        /\ lower(req[p].email) # lower(req[q].email)
        /\ Cardinality(by_username(req[p].username)) = 1
        /\ Cardinality(DOMAIN users) = 1

====
